---- MODULE Spec2Model ----
(***************************************************************************)
(* wentrivia: a channel-scoped trivia game for a chat bot.                 *)
(*                                                                         *)
(* The model covers the command handler TriviaCog.start (the registry      *)
(* `games`), the session object (ABCTrivia and its mixins: the JSON        *)
(* loader, the forgiving checker, the regular game logic) and the draft    *)
(* module trivia.py (class Trivia), which is a second, self-contained      *)
(* implementation of the same session.                                     *)
(*                                                                         *)
(* trivia_cog.py constructs a RegularTrivia, a class the sources do not     *)
(* define; the session of the package is modelled as the composition of    *)
(* the mixins of abc_trivia.py, the way ForgivingTrivia composes them.     *)
(* The variable `module` says which of the two implementations runs.       *)
(*                                                                         *)
(* The bot runs on a single-threaded cooperative event loop: a handler     *)
(* runs without interruption from one suspension point (an `await` that    *)
(* really suspends: ctx.send, bot.wait_for) to the next.  One action of    *)
(* the model is one such uninterrupted stretch of code.                    *)
(***************************************************************************)
EXTENDS Integers, Sequences, FiniteSets, TLC

\* ---------------------------------------------------------------- bounds
MaxGames   == 2    \* session objects in existence at one time
MaxUsers   == 2    \* distinct message authors
MaxN       == 2    \* largest source collection (records in the JSON file)
MaxK       == 5    \* largest requested count k (LoaderSpec)
MaxSrc     == 3    \* largest source collection (LoaderSpec)
TickStep   == 5    \* time-units that pass in one step of the clock
MaxMsgLen  == 1    \* longest inbound message content
MaxChannel == 2    \* channel ids 1..MaxChannel
MaxLen     == 3    \* longest message and longest stored answer (CheckerSpec)

\* ------------------------------------------------------ program constants
TIMEOUT  == 15     \* wait_for(..., timeout=15)
DefaultK == 2      \* load_questions(self, *, category='', k=2)

\* self.channels = [627959873329430570]; the id is written 1 here
channels == {1}

ChannelIds == 1..MaxChannel
GameIds    == 1..MaxGames
Users      == 1..MaxUsers
NoGame     == 0    \* "key not in self.games"
Missing    == 0 - 1 \* the question file cannot be opened or parsed

\* ---------------------------------------------------------------- strings
\* A string is a sequence of characters; "A" is the only cased character.
\* Inbound messages are written with the characters of Alphabet.
Alphabet == {"A", "b"}

lower_char(c) == IF c = "A" THEN "a" ELSE c

\* str.lower()
lower(s) == [i \in 1..Len(s) |-> lower_char(s[i])]

Contents == UNION {[1..m -> Alphabet] : m \in 0..MaxMsgLen}

\* ------------------------------------------------------- question records
\* The i-th record of the JSON file (1-based here, index i-1 in the code).
\* A record is a JSON object whose keys are passed to the factory as keyword
\* arguments; `lowercase_answers |-> << >>` is a record without that key.
\* The records from the third on carry the key, with the answers as written.
Record(i) ==
    [content |-> i,
     points  |-> IF i = 1 THEN 10 ELSE 20,
     answers |-> IF i = 1 THEN << <<"A">> >>
                 ELSE IF i = 2 THEN << <<"b">>, <<"a", "A">> >>
                 ELSE << <<"A">> >>,
     lowercase_answers |-> IF i <= 2 THEN << >> ELSE << <<"A">> >>,
     perfect |-> (i % 2 = 1)]

\* Question.__post_init__ (through the factory call factory(**record))
factory(r) ==
    IF r.answers # << >> /\ r.lowercase_answers = << >>
    THEN [r EXCEPT !.lowercase_answers =
                      [j \in 1..Len(r.answers) |-> lower(r.answers[j])]]
    ELSE r

\* ------------------------------------------------------------------ state
VARIABLES
    module,        \* "package" (trivia_cog + abc_trivia) or "draft" (trivia.py)
    source,        \* number of records in the question file, or Missing
    k,             \* the count the loader is called with
    games,         \* TriviaCog.games: channel id -> session (NoGame: no key)
    created,       \* places that hold a session object
    ctx,           \* session -> channel of its context
    ratio,         \* session -> the ratio its checker compares with, in tenths
    playing,       \* session -> self.playing
    chosen_index,  \* session -> local `chosen_index` of load_questions
    questions_pool,\* session -> self.questions_pool
    scores,        \* session -> self.scores, as <<author, points>> in insertion order
    pc,            \* session -> where its coroutine is suspended
    qi,            \* session -> position of the for loop in questions_pool
    waited,        \* session -> time-units elapsed in the open wait_for (0: none open)
    msg,           \* session -> local `msg` (<< >> when unbound)
    outcome,       \* session -> per finished round, the author credited or 0
    raised,        \* session -> exception that left TriviaCog.start
    sent,          \* session -> messages delivered by ctx.send, in order
    rejected,      \* session -> its check has returned False in the open wait_for
    missed,        \* session -> an answer to its current question arrived
                   \* while it had no wait open, since it last resumed
    cmd            \* the last start command handled: its channel, and
                   \* whether it constructed a session

vars == <<module, source, k, games, created, ctx, ratio, playing, chosen_index,
          questions_pool, scores, pc, qi, waited, msg, outcome, raised,
          sent, rejected, missed, cmd>>

\* variables of one session object and its coroutine
sessionVars == <<ctx, ratio, playing, chosen_index, questions_pool, scores, pc, qi,
                 waited, msg, outcome, raised, sent, rejected, missed>>

\* ------------------------------------------------------------ score table
Keys(tbl) == {tbl[i][1] : i \in 1..Len(tbl)}

ScoreOf(tbl, u) ==
    LET I == {i \in 1..Len(tbl) : tbl[i][1] = u}
    IN IF I = {} THEN 0 ELSE tbl[CHOOSE i \in I : TRUE][2]

\* variant of Credit: `=` in place of `+=`
Credit_assign(tbl, u, p) ==
    IF u \in Keys(tbl)
    THEN [i \in 1..Len(tbl) |-> IF tbl[i][1] = u THEN <<u, p>> ELSE tbl[i]]
    ELSE Append(tbl, <<u, p>>)

\* self.scores[author] += points  (defaultdict(int): created at 0 if absent)
Credit(tbl, u, p) ==
    IF u \in Keys(tbl)
    THEN [i \in 1..Len(tbl) |->
            IF tbl[i][1] = u THEN <<u, tbl[i][2] + p>> ELSE tbl[i]]
    ELSE Append(tbl, <<u, 0 + p>>)

Remove(s, i) == [j \in 1..(Len(s) - 1) |-> IF j < i THEN s[j] ELSE s[j + 1]]

\* variant of PickMax: the latest largest value (ties come out reversed)
PickMax_latest(tbl) ==
    CHOOSE i \in 1..Len(tbl) :
        /\ \A j \in 1..Len(tbl) : tbl[j][2] <= tbl[i][2]
        /\ \A j \in (i + 1)..Len(tbl) : tbl[j][2] < tbl[i][2]

\* position moved to the front of the result next: the earliest largest value
PickMax(tbl) ==
    CHOOSE i \in 1..Len(tbl) :
        /\ \A j \in 1..Len(tbl) : tbl[j][2] <= tbl[i][2]
        /\ \A j \in 1..(i - 1) : tbl[j][2] < tbl[i][2]

\* sorted(self.scores.items(), key=itemgetter(1), reverse=True): stable
RECURSIVE sorted(_)
sorted(tbl) ==
    IF tbl = << >> THEN << >>
    ELSE LET i == PickMax(tbl)
         IN <<tbl[i]>> \o sorted(Remove(tbl, i))

\* --------------------------------------------------------------- messages
\* what ctx.send is given: the start announcement, a question, the credit of
\* an author with the points gained, the timeout notice, the leaderboard
\* rows, or the notice that nobody scored
Text(kind, q, a, p, rows) ==
    [kind |-> kind, question |-> q, author |-> a, points |-> p, rows |-> rows]

\* variant of Report: the leaderboard is sent whatever the table holds
Report_board(tbl) == Text("board", << >>, 0, 0, sorted(tbl))

\* the final report, as built just before the last ctx.send
Report(tbl) ==
    IF tbl # << >> THEN Text("board", << >>, 0, 0, sorted(tbl))
    ELSE Text("nobody", << >>, 0, 0, << >>)

\* ---------------------------------------------------------------- checker
\* SequenceMatcher(a, b).quick_ratio() = 2*M/T, M the size of the multiset
\* intersection of the characters of a and b, T = len(a) + len(b);
\* 1.0 when both are empty.  Ratios are compared in tenths.
Count(s, c) == Cardinality({i \in 1..Len(s) : s[i] = c})

Min(x, y) == IF x <= y THEN x ELSE y

RECURSIVE SumOver(_, _, _)
SumOver(S, a, b) ==
    IF S = {} THEN 0
    ELSE LET c == CHOOSE x \in S : TRUE
         IN Min(Count(a, c), Count(b, c)) + SumOver(S \ {c}, a, b)

Matches(a, b) == SumOver({a[i] : i \in 1..Len(a)}, a, b)

\* variant of RatioExceeds: `>=` in place of `>`
RatioExceeds_atleast(a, b, ratio10) ==
    IF Len(a) + Len(b) = 0 THEN 10 >= ratio10
    ELSE 2 * Matches(a, b) * 10 >= ratio10 * (Len(a) + Len(b))

\* quick_ratio() > ratio, with ratio = ratio10 / 10
RatioExceeds(a, b, ratio10) ==
    IF Len(a) + Len(b) = 0 THEN 10 > ratio10
    ELSE 2 * Matches(a, b) * 10 > ratio10 * (Len(a) + Len(b))

\* ForgivingCheckerMixin.__init__(forgiveness_ratio=0.0): ForgivingTrivia
\* passes no ratio; the draft module compares against the literal 0.8
forgiveness_ratio10(mod) == IF mod = "draft" THEN 8 ELSE 0

\* ratios a checker can be constructed with, in tenths: 0.0, 0.5, 0.8, 1.0
Ratios == {0, 5, 8, 10}

\* check_answer of a session whose checker compares with ratio10 / 10 (for
\* the draft module ratio10 stands for its literal)
\* variant of check_answer: the `perfect` flag of the question is not read
check_answer_fuzzy(mod, ratio10, content, question) ==
    LET answer == lower(content)
        correct_answers ==
            IF mod = "draft"
            THEN [j \in 1..Len(question.answers) |-> lower(question.answers[j])]
            ELSE question.lowercase_answers
    IN \E j \in 1..Len(correct_answers) :
          RatioExceeds(answer, correct_answers[j], ratio10)

check_answer(mod, ratio10, content, question) ==
    LET answer == lower(content)
        correct_answers ==
            IF mod = "draft"
            THEN [j \in 1..Len(question.answers) |-> lower(question.answers[j])]
            ELSE question.lowercase_answers
    IN IF question.perfect
       THEN \E j \in 1..Len(correct_answers) : answer = correct_answers[j]
       ELSE \E j \in 1..Len(correct_answers) :
               RatioExceeds(answer, correct_answers[j], ratio10)

\* ----------------------------------------------------------------- loader
Injective(s) == \A i, j \in 1..Len(s) : i # j => s[i] # s[j]

\* variant of Sample: indices drawn with replacement
Sample_replace(n, m) == [1..m -> 0..(n - 1)]

\* random.sample(range(n), k=m): m distinct indices
Sample(n, m) == {s \in [1..m -> 0..(n - 1)] : Injective(s)}

\* random.choices(range(n), k=j): j indices, repeats allowed; no result
\* (IndexError) when the range is empty and j > 0
Choices(n, j) == [1..j -> 0..(n - 1)]

\* JSONLoaderMixin.load_questions: every chosen_index it can compute;
\* the empty set when it raises
LoadIndices(n, kk) ==
    IF n = Missing THEN {}
    ELSE LET number == Min(n, kk)
         IN {s1 \o s2 : s1 \in Sample(n, number),
                        s2 \in Choices(n, kk - number)}

\* Trivia.load_questions of the draft module: the whole file, shuffled; no
\* result when the file is missing, or (TypeError) when a record has a key
\* that the Question of the draft module does not take
ShuffleIndices(n) ==
    IF n = Missing THEN {}
    ELSE IF \E i \in 1..n : Record(i).lowercase_answers # << >> THEN {}
    ELSE Sample(n, n)

Indices(mod, n, kk) ==
    IF mod = "draft" THEN ShuffleIndices(n) ELSE LoadIndices(n, kk)

\* self.questions_pool = [self.factory(**questions[n]) for n in chosen_index]
Pool(ci) == [i \in 1..Len(ci) |-> factory(Record(ci[i] + 1))]

\* ------------------------------------------------------------------- Init
NoCmd == [channel |-> 0, accepted |-> FALSE]

\* ABCTrivia.__init__ / Trivia.__init__ for every session not yet constructed
InitSessions ==
    /\ ctx = [g \in GameIds |-> 0]
    /\ ratio = [g \in GameIds |-> 0]
    /\ playing = [g \in GameIds |-> FALSE]
    /\ chosen_index = [g \in GameIds |-> << >>]
    /\ questions_pool = [g \in GameIds |-> << >>]
    /\ scores = [g \in GameIds |-> << >>]
    /\ pc = [g \in GameIds |-> "idle"]
    /\ qi = [g \in GameIds |-> 0]
    /\ waited = [g \in GameIds |-> 0]
    /\ msg = [g \in GameIds |-> << >>]
    /\ outcome = [g \in GameIds |-> << >>]
    /\ raised = [g \in GameIds |-> "none"]
    /\ sent = [g \in GameIds |-> << >>]
    /\ rejected = [g \in GameIds |-> FALSE]
    /\ missed = [g \in GameIds |-> FALSE]

Init ==
    /\ module \in {"package", "draft"}
    /\ source \in {Missing} \cup 0..MaxN
    /\ k = DefaultK
    /\ games = [c \in ChannelIds |-> NoGame]
    /\ created = {}
    /\ InitSessions
    /\ cmd = NoCmd

\* ------------------------------------------------------- session helpers
\* variant of AExit: the flag is not reset
AExit_noreset(g) ==
    /\ playing' = playing
    /\ scores' = IF module = "draft" THEN [scores EXCEPT ![g] = << >>]
                 ELSE scores

\* __aexit__: self.playing = False (the draft also clears the scores)
AExit(g) ==
    /\ playing' = [playing EXCEPT ![g] = FALSE]
    /\ scores' = IF module = "draft" THEN [scores EXCEPT ![g] = << >>]
                 ELSE scores

\* an exception leaves the `async with` block and then TriviaCog.start (the
\* locals of the coroutine go with it); `del self.games[...]` is not reached
Raise(g, what) ==
    /\ AExit(g)
    /\ pc' = [pc EXCEPT ![g] = "failed"]
    /\ raised' = [raised EXCEPT ![g] = what]
    /\ msg' = [msg EXCEPT ![g] = << >>]

\* variant of Advance: the loop ends after its first iteration
Advance_once(g, pool) ==
    IF qi[g] < 1 /\ Len(pool) > 0
    THEN /\ qi' = [qi EXCEPT ![g] = qi[g] + 1]
         /\ pc' = [pc EXCEPT ![g] = "send_question"]
    ELSE /\ qi' = qi
         /\ pc' = [pc EXCEPT ![g] = "send_report"]

\* the for loop takes its next question, or ends and the report is sent
Advance(g, pool) ==
    IF qi[g] < Len(pool)
    THEN /\ qi' = [qi EXCEPT ![g] = qi[g] + 1]
         /\ pc' = [pc EXCEPT ![g] = "send_question"]
    ELSE /\ qi' = qi
         /\ pc' = [pc EXCEPT ![g] = "send_report"]

\* variant of Pending: the loop variable stays on the first question
Pending_first(g) ==
    CASE pc[g] = "send_start"    -> Text("start", << >>, 0, 0, << >>)
      [] pc[g] = "send_question" -> Text("question", <<questions_pool[g][1]>>,
                                         0, 0, << >>)
      [] pc[g] = "send_credit"   -> Text("credit", << >>, msg[g][1].author,
                                         questions_pool[g][qi[g]].points, << >>)
      [] pc[g] = "send_timeout"  -> Text("timeout", << >>, 0, 0, << >>)
      [] pc[g] = "send_report"   -> Report(scores[g])

\* text handed to the ctx.send the session is suspended in
Pending(g) ==
    CASE pc[g] = "send_start"    -> Text("start", << >>, 0, 0, << >>)
      [] pc[g] = "send_question" -> Text("question", <<questions_pool[g][qi[g]]>>,
                                         0, 0, << >>)
      [] pc[g] = "send_credit"   -> Text("credit", << >>, msg[g][1].author,
                                         questions_pool[g][qi[g]].points, << >>)
      [] pc[g] = "send_timeout"  -> Text("timeout", << >>, 0, 0, << >>)
      [] pc[g] = "send_report"   -> Report(scores[g])

Sending(g) ==
    pc[g] \in {"send_start", "send_question", "send_credit", "send_timeout",
               "send_report"}

\* ------------------------------------------------------------ TriviaCog
\* variants of can_start: without the registry test, without the allow-list
can_start_unregistered(c) == c \in channels

can_start_anywhere(c) == games[c] = NoGame

can_start(c) == c \in channels /\ games[c] = NoGame

\* A session object that has finished has been deleted from the registry and
\* is referenced by nothing: the next session constructed may take its place.
Free(g) == pc[g] \in {"idle", "finished"}

NextId == CHOOSE g \in GameIds : Free(g) /\ \A h \in 1..(g - 1) : ~Free(h)

\* load_questions as called from the game logic: the pool is replaced
Load(g, ci) ==
    /\ chosen_index' = [chosen_index EXCEPT ![g] = ci]
    /\ questions_pool' = [questions_pool EXCEPT ![g] = Pool(ci)]

\* TriviaCog.start up to its first suspension.  package: RegularLogicMixin
\* ._play enters the session, loads the questions and suspends in the send
\* of the start announcement.  draft: Trivia.play enters the session and
\* suspends in that send; the questions are loaded after it.
StartCmd(c) ==
    /\ UNCHANGED <<module, source, k>>
    /\ IF ~can_start(c)
       THEN /\ cmd' = [channel |-> c, accepted |-> FALSE]
            /\ UNCHANGED <<games, created, sessionVars>>
       ELSE /\ \E g \in GameIds : Free(g)
            /\ LET g == NextId IN
               /\ cmd' = [channel |-> c, accepted |-> TRUE]
               /\ created' = created \cup {g}
               /\ games' = [games EXCEPT ![c] = g]
               /\ ctx' = [ctx EXCEPT ![g] = c]
               /\ ratio' = [ratio EXCEPT ![g] = forgiveness_ratio10(module)]
               /\ scores' = [scores EXCEPT ![g] = << >>]
               /\ qi' = [qi EXCEPT ![g] = 0]
               /\ waited' = [waited EXCEPT ![g] = 0]
               /\ msg' = [msg EXCEPT ![g] = << >>]
               /\ outcome' = [outcome EXCEPT ![g] = << >>]
               /\ sent' = [sent EXCEPT ![g] = << >>]
               /\ rejected' = [rejected EXCEPT ![g] = FALSE]
               /\ missed' = [missed EXCEPT ![g] = FALSE]
               /\ IF module = "draft"
                  THEN /\ Load(g, << >>)
                       /\ playing' = [playing EXCEPT ![g] = TRUE]
                       /\ pc' = [pc EXCEPT ![g] = "send_start"]
                       /\ raised' = [raised EXCEPT ![g] = "none"]
                  ELSE \/ /\ Indices(module, source, k) = {}
                          /\ Load(g, << >>)
                          /\ playing' = [playing EXCEPT ![g] = FALSE]
                          /\ pc' = [pc EXCEPT ![g] = "failed"]
                          /\ raised' = [raised EXCEPT ![g] = "load"]
                       \/ \E ci \in Indices(module, source, k) :
                          /\ Load(g, ci)
                          /\ playing' = [playing EXCEPT ![g] = TRUE]
                          /\ pc' = [pc EXCEPT ![g] = "send_start"]
                          /\ raised' = [raised EXCEPT ![g] = "none"]

\* ---------------------------------------------------------------- session
\* `del self.games[ctx.channel.id]` after game.start() has returned
Release(g) == games' = [games EXCEPT ![ctx[g]] = NoGame]

\* The pending ctx.send completes; the coroutine runs to its next suspension.
SendOk(g) ==
    /\ Sending(g)
    /\ sent' = [sent EXCEPT ![g] = Append(sent[g], Pending(g))]
    /\ missed' = [missed EXCEPT ![g] = FALSE]
    /\ UNCHANGED <<module, source, k, created, ctx, ratio, rejected, cmd>>
    /\ CASE pc[g] = "send_start" ->
              IF module = "draft"
              THEN \/ /\ Indices(module, source, k) = {}
                      /\ Raise(g, "load")
                      /\ UNCHANGED <<chosen_index, questions_pool, qi, waited,
                                     outcome, games>>
                   \/ \E ci \in Indices(module, source, k) :
                      /\ Load(g, ci)
                      /\ Advance(g, Pool(ci))
                      /\ UNCHANGED <<playing, scores, waited, msg, outcome,
                                     raised, games>>
              ELSE /\ Advance(g, questions_pool[g])
                   /\ UNCHANGED <<playing, chosen_index, questions_pool, scores,
                                  waited, msg, outcome, raised, games>>
         [] pc[g] = "send_question" ->
              /\ pc' = [pc EXCEPT ![g] = "wait"]
              /\ waited' = [waited EXCEPT ![g] = 0]
              /\ UNCHANGED <<playing, chosen_index, questions_pool, scores, qi,
                             msg, outcome, raised, games>>
         [] pc[g] \in {"send_credit", "send_timeout"} ->
              /\ Advance(g, questions_pool[g])
              /\ msg' = [msg EXCEPT ![g] = << >>]
              /\ UNCHANGED <<playing, chosen_index, questions_pool, scores,
                             waited, outcome, raised, games>>
         [] pc[g] = "send_report" ->
              /\ AExit(g)
              /\ Release(g)
              /\ pc' = [pc EXCEPT ![g] = "finished"]
              /\ UNCHANGED <<chosen_index, questions_pool, qi, waited, msg,
                             outcome, raised>>

\* The pending ctx.send raises (transport error): nothing is delivered and
\* the exception leaves the session and the command handler.
SendFail(g) ==
    /\ Sending(g)
    /\ Raise(g, "send")
    /\ missed' = [missed EXCEPT ![g] = FALSE]
    /\ UNCHANGED <<module, source, k, games, created, ctx, ratio,
                   chosen_index, questions_pool, qi, waited, outcome, sent,
                   rejected, cmd>>

\* variant of Expired: a timeout of 10 in place of 15
Expired_early(g) == waited[g] >= 10

\* the timer of wait_for(timeout=15) has run out
Expired(g) == waited[g] >= TIMEOUT

\* time passes for a session suspended in wait_for, up to its deadline
Tick(g) ==
    /\ pc[g] = "wait"
    /\ ~Expired(g)
    /\ waited' = [waited EXCEPT ![g] = Min(waited[g] + TickStep, TIMEOUT)]
    /\ UNCHANGED <<module, source, k, games, created, ctx, ratio, playing,
                   chosen_index, questions_pool, scores, pc, qi, msg, outcome,
                   raised, sent, rejected, missed, cmd>>

\* variant of Timeout: the except branch reads self.scores[...], and the
\* defaultdict creates the key
Timeout_charged(g) ==
    /\ pc[g] = "wait"
    /\ Expired(g)
    /\ pc' = [pc EXCEPT ![g] = "send_timeout"]
    /\ outcome' = [outcome EXCEPT ![g] = Append(outcome[g], 0)]
    /\ waited' = [waited EXCEPT ![g] = 0]
    /\ rejected' = [rejected EXCEPT ![g] = FALSE]
    /\ scores' = [scores EXCEPT ![g] = Credit(scores[g], 1, 0)]
    /\ UNCHANGED <<module, source, k, games, created, ctx, ratio, playing,
                   chosen_index, questions_pool, qi, msg, raised, sent, missed,
                   cmd>>

\* wait_for raises asyncio.TimeoutError; the except branch sends its text
Timeout(g) ==
    /\ pc[g] = "wait"
    /\ Expired(g)
    /\ pc' = [pc EXCEPT ![g] = "send_timeout"]
    /\ outcome' = [outcome EXCEPT ![g] = Append(outcome[g], 0)]
    /\ waited' = [waited EXCEPT ![g] = 0]
    /\ rejected' = [rejected EXCEPT ![g] = FALSE]
    /\ UNCHANGED <<module, source, k, games, created, ctx, ratio, playing,
                   chosen_index, questions_pool, scores, qi, msg,
                   raised, sent, missed, cmd>>

\* variant of Listening: the listener is registered before the question is
\* sent
Listening_early(g) == pc[g] \in {"wait", "send_question"}

\* check=lambda msg: self.check_answer(msg, question), run by the bot for
\* every session suspended in wait_for
Listening(g) == pc[g] = "wait"

\* check_answer tabulated over the questions the loader can build: for each
\* implementation and question, the contents it accepts
Questions == {factory(Record(i)) : i \in 1..MaxN}

Accepted ==
    [mod \in {"package", "draft"}, r \in Ratios, q \in Questions |->
        {content \in Contents : check_answer(mod, r, content, q)}]

Passes(g, m) ==
    /\ Listening(g)
    /\ m.content \in Accepted[module, ratio[g], questions_pool[g][qi[g]]]

\* the session has no listener registered (it is suspended in a send inside
\* its loop) and m is an answer its check accepts for its current question,
\* the one being broadcast or the one just resolved
Misses(g, m) ==
    /\ ~Listening(g)
    /\ Sending(g)
    /\ qi[g] >= 1
    /\ m.content \in Accepted[module, ratio[g], questions_pool[g][qi[g]]]

\* A message by author u with the given content is posted in channel c and
\* dispatched to the waiting sessions.  A session whose check passes gets the
\* message as the result of wait_for (its timer is dropped), credits the
\* author and suspends in the send of the announcement; a session whose check
\* fails stays in wait_for; a session with no wait open is not offered the
\* message.  (A message that changes nothing is a stuttering step and is
\* left to [Next]_vars.)
Message(u, c, content) ==
    LET m == [author |-> u, channel |-> c, content |-> content]
        W == {g \in GameIds : Passes(g, m)}
    IN /\ \E g \in GameIds :
             \/ Listening(g) /\ (g \in W \/ ~rejected[g])
             \/ Misses(g, m) /\ ~missed[g]
       /\ missed' = [g \in GameIds |->
                       IF Misses(g, m) THEN TRUE ELSE missed[g]]
       /\ msg' = [g \in GameIds |-> IF g \in W THEN <<m>> ELSE msg[g]]
       /\ scores' = [g \in GameIds |->
                       IF g \in W
                       THEN Credit(scores[g], u, questions_pool[g][qi[g]].points)
                       ELSE scores[g]]
       /\ outcome' = [g \in GameIds |->
                        IF g \in W THEN Append(outcome[g], u) ELSE outcome[g]]
       /\ pc' = [g \in GameIds |-> IF g \in W THEN "send_credit" ELSE pc[g]]
       /\ waited' = [g \in GameIds |-> IF g \in W THEN 0 ELSE waited[g]]
       /\ rejected' = [g \in GameIds |->
                         IF g \in W THEN FALSE
                         ELSE IF Listening(g) THEN TRUE ELSE rejected[g]]
       /\ UNCHANGED <<module, source, k, games, created, ctx, ratio, playing,
                      chosen_index, questions_pool, qi, raised, sent, cmd>>

Next ==
    \/ \E c \in ChannelIds : StartCmd(c)
    \/ \E g \in GameIds : SendOk(g)
    \/ \E g \in GameIds : SendFail(g)
    \/ \E g \in GameIds : Tick(g)
    \/ \E g \in GameIds : Timeout(g)
    \/ \E u \in Users, c \in ChannelIds, content \in Contents :
          Message(u, c, content)

Spec == Init /\ [][Next]_vars

TypeOK ==
    /\ module \in {"package", "draft"}
    /\ games \in [ChannelIds -> GameIds \cup {NoGame}]
    /\ cmd.channel \in ChannelIds \cup {0}
    /\ created \subseteq GameIds
    /\ \A g \in GameIds :
          /\ pc[g] \in {"idle", "send_start", "send_question", "wait",
                         "send_credit", "send_timeout", "send_report",
                         "finished", "failed"}
          /\ waited[g] \in 0..TIMEOUT
          /\ qi[g] \in 0..Len(questions_pool[g])

\* --------------------------------------------------------------- fairness
\* The event loop resumes a session whose send has completed, and its timers
\* run: a session that can take a step of its own eventually takes one.
Progress(g) == SendOk(g) \/ Tick(g) \/ Timeout(g)

FairSpec == Spec /\ \A g \in GameIds : WF_vars(Progress(g))

\* ------------------------------------------------- the loader on its own
\* load_questions(category='', k=k) called on a freshly constructed session,
\* for every size of the source collection and every count k >= 1.
LoaderInit ==
    /\ module = "package"
    /\ source \in 0..MaxSrc
    /\ k \in 1..MaxK
    /\ games = [c \in ChannelIds |-> NoGame]
    /\ created = {1}
    /\ InitSessions
    /\ cmd = NoCmd

LoadQuestions(g) ==
    /\ g \in created
    /\ pc[g] = "idle"
    /\ \/ /\ Indices(module, source, k) = {}
          /\ pc' = [pc EXCEPT ![g] = "failed"]
          /\ raised' = [raised EXCEPT ![g] = "load"]
          /\ UNCHANGED <<chosen_index, questions_pool>>
       \/ \E ci \in Indices(module, source, k) :
          /\ Load(g, ci)
          /\ pc' = [pc EXCEPT ![g] = "loaded"]
          /\ UNCHANGED raised
    /\ UNCHANGED <<module, source, k, games, created, ctx, ratio, playing,
                   scores, qi, waited, msg, outcome, sent, rejected,
                   missed, cmd>>

LoaderNext == \E g \in GameIds : LoadQuestions(g)

LoaderSpec == LoaderInit /\ [][LoaderNext]_vars

\* ------------------------------------------------ the checker on its own
\* check_answer(message, question) called on a session of the package whose
\* checker was constructed with any of the ratios, for every message and
\* every question the factory builds from a record with up to two answers.
Strings == UNION {[1..m -> Alphabet] : m \in 0..MaxLen}

AnswerLists ==
    {<< >>} \cup {<<a>> : a \in Strings} \cup {<<a, b>> : a, b \in Strings}

CheckerRecords ==
    {[content |-> 1, points |-> 10, answers |-> as,
      lowercase_answers |-> << >>, perfect |-> p] :
        as \in AnswerLists, p \in BOOLEAN}

CheckerInit ==
    /\ module = "package"
    /\ source = 1
    /\ k = DefaultK
    /\ games = [c \in ChannelIds |-> NoGame]
    /\ created = {1}
    /\ ctx = [g \in GameIds |-> 0]
    /\ \E r \in Ratios : ratio = [g \in GameIds |-> r]
    /\ playing = [g \in GameIds |-> FALSE]
    /\ chosen_index = [g \in GameIds |-> << >>]
    /\ \E r \in CheckerRecords :
          questions_pool = [g \in GameIds |->
                              IF g = 1 THEN <<factory(r)>> ELSE << >>]
    /\ scores = [g \in GameIds |-> << >>]
    /\ pc = [g \in GameIds |-> "idle"]
    /\ qi = [g \in GameIds |-> IF g = 1 THEN 1 ELSE 0]
    /\ waited = [g \in GameIds |-> 0]
    /\ \E content \in Strings :
          msg = [g \in GameIds |->
                   IF g = 1
                   THEN <<[author |-> 1, channel |-> 1, content |-> content]>>
                   ELSE << >>]
    /\ outcome = [g \in GameIds |-> << >>]
    /\ raised = [g \in GameIds |-> "none"]
    /\ sent = [g \in GameIds |-> << >>]
    /\ rejected = [g \in GameIds |-> FALSE]
    /\ missed = [g \in GameIds |-> FALSE]
    /\ cmd = NoCmd

\* one call of check_answer; its result is kept in pc
CheckAnswer(g) ==
    /\ g \in created
    /\ pc[g] = "idle"
    /\ msg[g] # << >>
    /\ pc' = [pc EXCEPT ![g] =
                 IF check_answer(module, ratio[g], msg[g][1].content,
                                 questions_pool[g][qi[g]])
                 THEN "accepted" ELSE "refused"]
    /\ UNCHANGED <<module, source, k, games, created, ctx, ratio, playing,
                   chosen_index, questions_pool, scores, qi, waited, msg,
                   outcome, raised, sent, rejected, missed, cmd>>

CheckerNext == \E g \in GameIds : CheckAnswer(g)

CheckerSpec == CheckerInit /\ [][CheckerNext]_vars

\* ----------------------------------------------------------------- claims
Running(g) ==
    pc[g] \in {"send_start", "send_question", "wait", "send_credit",
               "send_timeout", "send_report"}

Ended(g) == pc[g] \in {"finished", "failed"}

\* the sessions of channel c whose run has begun and has not ended
LiveOn(c) == {g \in created : ctx[g] = c /\ Running(g)}

Last(s) == s[Len(s)]

\* C1: a channel has at most one live session, and the registry names it; a
\* start command for an allowed channel with no registered session
\* constructs and registers exactly one session, and a start command for a
\* channel that has a registered session changes nothing and sends nothing.
C1_Inv ==
    \A c \in ChannelIds :
        /\ Cardinality(LiveOn(c)) <= 1
        /\ \A g \in LiveOn(c) : games[c] = g

\* a session is constructed in place g
Built(g) ==
    /\ pc[g] \in {"idle", "finished"}
    /\ pc'[g] \notin {"idle", "finished"}

C1_Step ==
    /\ \A g \in GameIds :
          Built(g) =>
              /\ cmd'.accepted
              /\ cmd'.channel \in channels
              /\ games[cmd'.channel] = NoGame
              /\ games' = [games EXCEPT ![cmd'.channel] = g]
              /\ ctx'[g] = cmd'.channel
              /\ sent'[g] = << >>
              /\ \A h \in GameIds \ {g} : pc'[h] = pc[h] /\ sent'[h] = sent[h]
    /\ (cmd' # cmd /\ cmd'.channel \in channels) =>
          IF games[cmd'.channel] = NoGame
          THEN cmd'.accepted /\ \E g \in GameIds : Built(g)
          ELSE /\ ~cmd'.accepted
               /\ UNCHANGED <<games, created, sessionVars>>

\* C1 (formula): C1_Inv holds in every state and C1_Step of every step: at
\* most one live session per channel, one session constructed per accepted
\* start command, nothing changed by a refused one.
C1_OneSessionPerChannel == [](C1_Inv) /\ [][C1_Step]_vars

\* the last start command, for an allowed channel, constructed nothing: the
\* session an earlier start command had constructed there is live
C1_Witness ==
    /\ cmd.channel \in channels
    /\ ~cmd.accepted
    /\ LiveOn(cmd.channel) # {}

\* C2: once a session's run has ended, normally or by a failure, the
\* registry no longer holds it.
C2_ReleasedOnEveryExit ==
    \A g \in created : Ended(g) => games[ctx[g]] # g

\* C3: a start command for a channel outside the allow-list changes neither
\* the registry nor any session, and sends nothing.
C3_Step ==
    (cmd' # cmd /\ cmd'.channel \notin channels) =>
        /\ ~cmd'.accepted
        /\ UNCHANGED <<games, created, sessionVars>>

\* C3 (formula): every step that handles a start command for a disallowed
\* channel leaves the registry and all sessions unchanged.
C3_DisallowedRefused == [][C3_Step]_vars

\* the last start command was for a disallowed channel, handled while the
\* registry held a session, and no session exists for that channel
C3_Witness ==
    /\ cmd.channel \in ChannelIds \ channels
    /\ \E d \in ChannelIds : games[d] # NoGame
    /\ \A g \in created : ctx[g] # cmd.channel

\* C4: a wait opens with its timer at zero; while it stays open nothing of
\* the session changes and the timer only moves forward, never past 15; it
\* closes with exactly one outcome, a timeout when 15 time-units have
\* elapsed or the credit of a message that passes the checker for the
\* current question.
C4_Step ==
    \A g \in GameIds :
        /\ (pc[g] # "wait" /\ pc'[g] = "wait") =>
              (waited'[g] = 0 /\ ~rejected'[g])
        /\ (pc[g] = "wait" /\ pc'[g] = "wait") =>
              /\ waited'[g] >= waited[g]
              /\ waited'[g] <= TIMEOUT
              /\ rejected[g] => rejected'[g]
              /\ rejected'[g] # rejected[g] => waited'[g] = waited[g]
              /\ scores'[g] = scores[g]
              /\ outcome'[g] = outcome[g]
              /\ qi'[g] = qi[g]
              /\ msg'[g] = msg[g]
              /\ sent'[g] = sent[g]
              /\ playing'[g] = playing[g]
              /\ questions_pool'[g] = questions_pool[g]
        /\ (pc[g] = "wait" /\ pc'[g] # "wait") =>
              /\ Len(outcome'[g]) = Len(outcome[g]) + 1
              /\ Len(outcome'[g]) = qi[g]
              /\ \/ /\ pc'[g] = "send_timeout"
                    /\ waited[g] = TIMEOUT
                    /\ Last(outcome'[g]) = 0
                    /\ scores'[g] = scores[g]
                 \/ /\ pc'[g] = "send_credit"
                    /\ msg'[g] # << >>
                    /\ check_answer(module, ratio[g], msg'[g][1].content,
                                    questions_pool[g][qi[g]])
                    /\ Last(outcome'[g]) = msg'[g][1].author
                    /\ Keys(scores'[g]) = Keys(scores[g]) \cup {msg'[g][1].author}
        /\ (pc[g] # "wait" /\ Running(g) /\ pc'[g] # "send_start") =>
              outcome'[g] = outcome[g]

\* C4 (formula): every step satisfies C4_Step: one outcome per question, a
\* timeout only at 15 time-units, rejected messages change nothing.
C4_OneOutcomePerQuestion == [][C4_Step]_vars

\* a session whose first question was answered and whose second wait has
\* reached its deadline although a message was rejected on the way
C4_Witness ==
    \E g \in created :
        /\ pc[g] = "wait"
        /\ Len(outcome[g]) = 1
        /\ outcome[g][1] # 0
        /\ rejected[g]
        /\ waited[g] = TIMEOUT

\* C5: during a session's run the keys of its score table are the authors
\* credited so far, each once, and each score is the sum of the points of
\* the questions credited to that author.
Authors(g) == {outcome[g][i] : i \in 1..Len(outcome[g])} \ {0}

RECURSIVE Earned(_, _, _)
Earned(g, u, i) ==
    IF i = 0 THEN 0
    ELSE (IF outcome[g][i] = u THEN questions_pool[g][i].points ELSE 0)
         + Earned(g, u, i - 1)

C5_ScoresMatchCredits ==
    \A g \in created :
        Running(g) =>
            /\ Len(outcome[g]) <= qi[g]
            /\ Keys(scores[g]) = Authors(g)
            /\ Len(scores[g]) = Cardinality(Authors(g))
            /\ \A u \in Users :
                  ScoreOf(scores[g], u) = Earned(g, u, Len(outcome[g]))

\* one author was credited for both questions of a session
C5_Witness ==
    \E g \in created :
        /\ Running(g)
        /\ Len(outcome[g]) = 2
        /\ outcome[g][1] # 0
        /\ outcome[g][1] = outcome[g][2]

\* C6: with a non-empty score table the final report is the leaderboard: it
\* holds every entry of the table exactly once, scores descending, and
\* entries of equal score in the order of their insertion into the table.
Pos(tbl, e) == CHOOSE i \in 1..Len(tbl) : tbl[i] = e

IsLeaderboard(rows, tbl) ==
    /\ Len(rows) = Len(tbl)
    /\ {rows[i] : i \in 1..Len(rows)} = {tbl[i] : i \in 1..Len(tbl)}
    /\ \A i, j \in 1..Len(rows) :
          i < j =>
            /\ rows[i][2] >= rows[j][2]
            /\ rows[i][2] = rows[j][2] => Pos(tbl, rows[i]) < Pos(tbl, rows[j])

C6_Inv ==
    \A g \in created :
        (pc[g] = "send_report" /\ scores[g] # << >>) =>
            /\ Pending(g).kind = "board"
            /\ IsLeaderboard(Pending(g).rows, scores[g])

C6_Step ==
    \A g \in GameIds :
        (pc[g] = "send_report" /\ pc'[g] = "finished") =>
            sent'[g] = Append(sent[g], Pending(g))

\* C6 (formula): the report pending at the end is the leaderboard of the
\* score table (descending, stable on ties), and it is what gets sent.
C6_LeaderboardOrder == [](C6_Inv) /\ [][C6_Step]_vars

\* a finished session reported two authors of equal score, the one inserted
\* first (the author with the larger id) listed first
C6_Witness ==
    \E g \in created :
        /\ pc[g] = "finished"
        /\ Last(sent[g]).kind = "board"
        /\ Len(Last(sent[g]).rows) = 2
        /\ Last(sent[g]).rows[1][2] = Last(sent[g]).rows[2][2]
        /\ Last(sent[g]).rows[1][1] > Last(sent[g]).rows[2][1]

\* C7: a session that has started ends; it ends as finished unless a load or
\* a send failed, after as many rounds as its queue holds; a session that
\* has ended does not run again (its place changes only when a start
\* command constructs a new session there).
C7_Inv ==
    \A g \in created :
        /\ pc[g] = "finished" =>
              /\ raised[g] = "none"
              /\ qi[g] = Len(questions_pool[g])
              /\ Len(outcome[g]) = Len(questions_pool[g])
        /\ pc[g] = "failed" => raised[g] \in {"load", "send"}
        /\ pc[g] # "idle"

C7_Step ==
    \A g \in GameIds :
        /\ (pc[g] = "finished" /\ pc'[g] # "finished") =>
              /\ cmd'.accepted
              /\ games'[cmd'.channel] = g
              /\ games[cmd'.channel] = NoGame
              /\ pc'[g] \in {"send_start", "failed"}
              /\ outcome'[g] = << >>
        /\ pc[g] = "failed" => pc'[g] = "failed"
        /\ (pc[g] # "finished" /\ pc'[g] = "finished") => Running(g)
        /\ (pc[g] = "idle" /\ pc'[g] # "idle") =>
              pc'[g] \in {"send_start", "failed"}

\* C7 (formula): every running session eventually ends, a finished one has
\* played one round per question of its pool, and an ended one stays ended.
C7_Terminates ==
    /\ [](C7_Inv)
    /\ [][C7_Step]_vars
    /\ \A g \in GameIds : Running(g) ~> Ended(g)

\* a session finished its two rounds although nobody ever answered
C7_Witness ==
    \E g \in created :
        /\ pc[g] = "finished"
        /\ outcome[g] = <<0, 0>>

\* C8: a session whose load failed has sent nothing, has an empty score
\* table, and its failure has left the command handler.
C8_LoadFailureSilent ==
    \A g \in created :
        raised[g] = "load" =>
            /\ pc[g] = "failed"
            /\ sent[g] = << >>
            /\ scores[g] = << >>

\* C9: the active flag is set exactly while the session's game loop runs.
C9_PlayingOnlyInLoop ==
    \A g \in GameIds : playing[g] <=> Running(g)

\* a session failed on a send in the middle of its loop and its flag is down
C9_Witness ==
    \E g \in created :
        /\ raised[g] = "send"
        /\ qi[g] >= 1
        /\ ~playing[g]

\* C10 as stated: every load yields a pool of length k whose first min(n, k)
\* entries come from distinct source indices.
FirstDistinct(ci, n) ==
    \A i, j \in 1..Min(n, Len(ci)) : i # j => ci[i] # ci[j]

C10_EveryLoadYieldsK ==
    \A g \in created :
        pc[g] # "idle" =>
            /\ Len(questions_pool[g]) = k
            /\ FirstDistinct(chosen_index[g], source)

\* C10, amended: for a source collection of n >= 1 records the load succeeds
\* with a pool of length k, built from indices of the collection of which
\* the first min(n, k) are distinct; for the empty collection the load fails
\* and the pool stays empty.  The load changes the pool and nothing else.
C10_Inv ==
    \A g \in created :
        /\ pc[g] = "loaded" =>
              /\ Len(questions_pool[g]) = k
              /\ Len(chosen_index[g]) = k
              /\ \A i \in 1..k :
                    /\ chosen_index[g][i] \in 0..(source - 1)
                    /\ questions_pool[g][i] = factory(Record(chosen_index[g][i] + 1))
              /\ FirstDistinct(chosen_index[g], source)
        /\ (source >= 1 /\ pc[g] # "idle") => pc[g] = "loaded"
        /\ (source = 0 /\ pc[g] # "idle") =>
              (pc[g] = "failed" /\ questions_pool[g] = << >>)

C10_Step ==
    UNCHANGED <<module, source, k, games, created, ctx, ratio, playing,
                scores, qi, waited, msg, outcome, sent, rejected, missed, cmd>>

\* C10 (formula, amended claim): C10_Inv holds in every state and the load
\* changes nothing but the pool.
C10_DistinctThenRepeat == [](C10_Inv) /\ [][C10_Step]_vars

\* a pool larger than the collection: distinct at first, a repeat afterwards
C10_Witness ==
    \E g \in created :
        /\ pc[g] = "loaded"
        /\ k > source
        /\ ~Injective(chosen_index[g])

\* the call of check_answer in session g has returned
Checked(g) == pc[g] \in {"accepted", "refused"}

\* the message and the question of that call
Given(g) == lower(msg[g][1].content)

Asked(g) == questions_pool[g][qi[g]]

\* C11: for a question that requires a perfect match the call returns true
\* exactly when the lowercased message is one of the question's lowercase
\* answers, whatever ratio the checker was constructed with.
C11_PerfectIsExact ==
    \A g \in created :
        (Checked(g) /\ Asked(g).perfect) =>
            (pc[g] = "accepted" <=>
                \E j \in 1..Len(Asked(g).lowercase_answers) :
                    Given(g) = Asked(g).lowercase_answers[j])

\* a perfect question refused a message that is one of its answers plus one
\* more character, which a checker of ratio 0.8 would accept in fuzzy mode
C11_Witness ==
    \E g \in created :
        /\ pc[g] = "refused"
        /\ Asked(g).perfect
        /\ ratio[g] = 8
        /\ \E j \in 1..Len(Asked(g).lowercase_answers) :
              /\ Len(Given(g)) = Len(Asked(g).lowercase_answers[j]) + 1
              /\ SubSeq(Given(g), 1, Len(Given(g)) - 1)
                    = Asked(g).lowercase_answers[j]
              /\ Len(Given(g)) = 3

\* M: the characters of a matched one to one with characters of b
RECURSIVE Matched(_, _)
Matched(a, b) ==
    IF a = << >> THEN 0
    ELSE LET I == {i \in 1..Len(b) : b[i] = Head(a)}
         IN IF I = {} THEN Matched(Tail(a), b)
            ELSE 1 + Matched(Tail(a), Remove(b, CHOOSE i \in I : TRUE))

\* 2*M/T > ratio10/10; two empty strings are identical (ratio 1)
Similar(a, b, ratio10) ==
    IF Len(a) + Len(b) = 0 THEN ratio10 < 10
    ELSE 20 * Matched(a, b) > ratio10 * (Len(a) + Len(b))

C12_Inv ==
    \A g \in created :
        (Checked(g) /\ ~Asked(g).perfect) =>
            (pc[g] = "accepted" <=>
                \E j \in 1..Len(Asked(g).lowercase_answers) :
                    Similar(Given(g), Asked(g).lowercase_answers[j], ratio[g]))

C12_Step ==
    UNCHANGED <<module, source, k, games, created, ctx, ratio, playing,
                chosen_index, questions_pool, scores, qi, waited, msg,
                outcome, raised, sent, rejected, missed, cmd>>

\* C12: for a question that does not require a perfect match the call
\* returns true exactly when some lowercase answer has a ratio 2*M/T to the
\* lowercased message strictly above the checker's ratio, and the call
\* changes nothing of the session.
C12_FuzzyStrictlyAbove == [](C12_Inv) /\ [][C12_Step]_vars

\* a fuzzy question refused a message whose best ratio, 2*2/5, equals the
\* checker's ratio 0.8
C12_Witness ==
    \E g \in created :
        /\ pc[g] = "refused"
        /\ ~Asked(g).perfect
        /\ ratio[g] = 8
        /\ \E j \in 1..Len(Asked(g).lowercase_answers) :
              /\ Len(Given(g)) + Len(Asked(g).lowercase_answers[j]) = 5
              /\ Matched(Given(g), Asked(g).lowercase_answers[j]) = 2

\* C13: every question of a loaded pool has as many lowercase answers as
\* answers, the i-th being the lowercase form of the i-th answer.
C13_LowercaseDerived ==
    \A g \in created :
        \A i \in 1..Len(questions_pool[g]) :
            LET q == questions_pool[g][i]
            IN /\ Len(q.lowercase_answers) = Len(q.answers)
               /\ \A j \in 1..Len(q.answers) :
                     q.lowercase_answers[j] = lower(q.answers[j])

\* C14: a wait that ends by timeout leaves the score table as it is and the
\* timeout notice pending; once the notice is delivered, with the table
\* still unchanged, the loop takes the next question of the pool, or the
\* report when there is none.  (A send that fails ends the session.)
C14_Step ==
    \A g \in GameIds :
        /\ (pc[g] = "wait" /\ pc'[g] = "send_timeout") =>
              /\ scores'[g] = scores[g]
              /\ sent'[g] = sent[g]
              /\ qi'[g] = qi[g]
        /\ (pc[g] = "send_timeout" /\ pc'[g] = "send_timeout") =>
              /\ scores'[g] = scores[g]
              /\ sent'[g] = sent[g]
        /\ (pc[g] = "send_timeout" /\ pc'[g] # "send_timeout") =>
              \/ /\ pc'[g] = "failed"
                 /\ raised'[g] = "send"
                 /\ sent'[g] = sent[g]
              \/ /\ sent'[g] = Append(sent[g],
                                      Text("timeout", << >>, 0, 0, << >>))
                 /\ scores'[g] = scores[g]
                 /\ IF qi[g] < Len(questions_pool[g])
                    THEN pc'[g] = "send_question" /\ qi'[g] = qi[g] + 1
                    ELSE pc'[g] = "send_report" /\ qi'[g] = qi[g]

\* C14 (formula): every step satisfies C14_Step.
C14_TimeoutKeepsScores == [][C14_Step]_vars

\* the first question timed out, its notice was sent, and the session is
\* broadcasting its second question
C14_Witness ==
    \E g \in created :
        /\ pc[g] = "send_question"
        /\ qi[g] = 2
        /\ outcome[g] = <<0>>
        /\ Last(sent[g]).kind = "timeout"

\* C15: a session sends at most one final report, as its last message and
\* only by finishing; a finished session has sent exactly one.  The report
\* is the "nobody scored" notice exactly when the score table is empty,
\* which is exactly when every round ended by timeout; otherwise it is the
\* leaderboard.
ReportsIn(s) == {j \in 1..Len(s) : s[j].kind \in {"board", "nobody"}}

AllTimedOut(g) == \A i \in 1..Len(outcome[g]) : outcome[g][i] = 0

C15_OneFinalReport ==
    \A g \in created :
        /\ Cardinality(ReportsIn(sent[g])) <= 1
        /\ \A j \in ReportsIn(sent[g]) : j = Len(sent[g]) /\ pc[g] = "finished"
        /\ pc[g] = "send_report" =>
              /\ Len(outcome[g]) = Len(questions_pool[g])
              /\ scores[g] = << >> <=> AllTimedOut(g)
              /\ Pending(g).kind = "nobody" <=> scores[g] = << >>
              /\ Pending(g).kind = "board" <=> scores[g] # << >>
        /\ pc[g] = "finished" =>
              /\ Cardinality(ReportsIn(sent[g])) = 1
              /\ Last(sent[g]).kind = "nobody" <=> AllTimedOut(g)
              /\ Last(sent[g]).kind = "board" <=> ~AllTimedOut(g)

\* a finished session whose first round timed out and whose second was
\* answered reported the leaderboard
C15_Witness ==
    \E g \in created :
        /\ pc[g] = "finished"
        /\ Len(outcome[g]) = 2
        /\ outcome[g][1] = 0
        /\ outcome[g][2] # 0
        /\ Last(sent[g]).kind = "board"

\* C16: a session constructed by the start command compares with 0.8: a
\* message credited for a question that does not require a perfect match
\* has a ratio above 0.8 to one of its lowercase answers.
C16_DefaultThreshold ==
    \A g \in created :
        (pc[g] = "send_credit" /\ ~Asked(g).perfect) =>
            \E j \in 1..Len(Asked(g).lowercase_answers) :
                Similar(Given(g), Asked(g).lowercase_answers[j], 8)

\* C17: what a session has sent is, in this order, the start announcement,
\* then for each position i of its pool the i-th question followed by the
\* announcement of how round i ended, then the final report; nothing is
\* sent ahead of the round the loop is in.
C17_BroadcastInQueueOrder ==
    \A g \in created :
        LET s == sent[g]
            n == Len(questions_pool[g])
        IN /\ Len(s) <= 2 * n + 2
           /\ \A j \in 1..Len(s) :
                 IF j = 1 THEN s[j].kind = "start"
                 ELSE IF j = 2 * n + 2
                 THEN /\ s[j].kind \in {"board", "nobody"}
                      /\ Len(outcome[g]) = n
                 ELSE IF j % 2 = 0
                 THEN /\ s[j].kind = "question"
                      /\ s[j].question = <<questions_pool[g][j \div 2]>>
                      /\ Len(outcome[g]) >= (j \div 2) - 1
                 ELSE /\ s[j].kind \in {"credit", "timeout"}
                      /\ Len(outcome[g]) >= (j - 1) \div 2
                      /\ s[j].kind = "timeout" <=> outcome[g][(j - 1) \div 2] = 0
                      /\ s[j].kind = "credit" =>
                            /\ s[j].author = outcome[g][(j - 1) \div 2]
                            /\ s[j].points =
                                  questions_pool[g][(j - 1) \div 2].points

\* a finished session broadcast two different questions: the first was
\* answered, the second timed out, and the report came last
C17_Witness ==
    \E g \in created :
        /\ pc[g] = "finished"
        /\ Len(sent[g]) = 6
        /\ sent[g][2].question # sent[g][4].question
        /\ sent[g][3].kind = "credit"
        /\ sent[g][5].kind = "timeout"

\* C18: the message that resolved a session's question, and was credited in
\* its score table, was posted in the session's own channel.
C18_OwnChannelOnly ==
    \A g \in created :
        msg[g] # << >> => msg[g][1].channel = ctx[g]

\* C19: a message is credited only by a step taken while the session's
\* wait is open, for the question of that wait alone: it passes the check
\* for that question, adds its points and closes the round.  A message that
\* arrives while the session is suspended in a send changes nothing of the
\* session, and no step taken outside a wait credits anything.
C19_Step ==
    \A g \in GameIds :
        /\ (msg'[g] # msg[g] /\ msg'[g] # << >>) =>
              /\ pc[g] = "wait"
              /\ pc'[g] = "send_credit"
              /\ check_answer(module, ratio[g], msg'[g][1].content,
                              questions_pool[g][qi[g]])
              /\ qi'[g] = qi[g]
              /\ outcome'[g] = Append(outcome[g], msg'[g][1].author)
              /\ Len(outcome'[g]) = qi[g]
              /\ \A u \in Users :
                    ScoreOf(scores'[g], u) =
                        ScoreOf(scores[g], u)
                        + (IF u = msg'[g][1].author
                           THEN questions_pool[g][qi[g]].points ELSE 0)
        /\ pc[g] # "wait" =>
              /\ msg'[g] \in {msg[g], << >>}
              /\ scores'[g] \in {scores[g], << >>}
              /\ outcome'[g] \in {outcome[g], << >>}
        /\ (missed'[g] /\ ~missed[g]) =>
              /\ pc[g] \in {"send_question", "send_credit", "send_timeout",
                             "send_report"}
              /\ pc'[g] = pc[g]
              /\ msg'[g] = msg[g]
              /\ scores'[g] = scores[g]
              /\ outcome'[g] = outcome[g]
              /\ qi'[g] = qi[g]
              /\ sent'[g] = sent[g]

\* C19 (formula): every step satisfies C19_Step.
C19_OnlyTheOpenWait == [][C19_Step]_vars

\* an answer to the second question arrived while that question was being
\* broadcast, after the first had timed out: nobody has been credited
C19_Witness ==
    \E g \in created :
        /\ missed[g]
        /\ pc[g] = "send_question"
        /\ qi[g] = 2
        /\ outcome[g] = <<0>>
        /\ scores[g] = << >>

====
